---------------------------- MODULE Spec2Model ----------------------------
(***************************************************************************)
(* Model of jdobes/evaluation-stats:                                       *)
(*   compare_python_go.py  differential comparator of two vmaas services   *)
(*   eval_systems.py       single-service evaluator                        *)
(*   get_sys_profiles.py   corpus fetch (query with bounded retries)       *)
(* Text is modelled as a sequence of one-character strings.                *)
(***************************************************************************)
EXTENDS Integers, Sequences, FiniteSets, TLC

(***************************************************************************)
(* Bounds of the model.                                                    *)
(***************************************************************************)
MaxSystems == 2
MaxUnpatched == 2
MaxAffected == 2
MaxNameLen == 2
MaxVerLen == 1
MaxRelLen == 3

VARIABLES
    \* the snapshot store and the command line
    store, system_limit,
    \* main() of compare_python_go.py and of eval_systems.py
    pc, rows, system, db_error, exception, calls, summary,
    \* compare_python_go.py
    durations_py, durations_go, resp_py, resp_go, out, printed, mismatched,
    \* eval_systems.py
    playbook_cves_stats, manual_cves_stats, unfixed_cves_stats,
    unfixed_packages_stats, total_packages_stats, vulns, line,
    \* get_sys_profiles.py: query()
    tries, requests, failures, exit_code,
    \* parse_rpm_name on a rendered tuple
    nevra, form, given_default, rendered, parsed

batchVars == <<store, system_limit, pc, rows, system, db_error, exception,
               calls, summary>>
compareVars == <<durations_py, durations_go, resp_py, resp_go, out, printed,
                 mismatched>>
evalVars == <<playbook_cves_stats, manual_cves_stats, unfixed_cves_stats,
              unfixed_packages_stats, total_packages_stats, vulns, line>>
queryVars == <<tries, requests, failures, exit_code>>
parseVars == <<nevra, form, given_default, rendered, parsed>>
vars == <<batchVars, compareVars, evalVars, queryVars, parseVars>>

(***************************************************************************)
(* Python values.                                                          *)
(***************************************************************************)
\* Python's None, as a value no text is equal to.
None == <<"None">>

\* Truthiness of an optional string: None and '' are falsy.
Truthy(x) == x # None /\ x # <<>>

Max(S) == CHOOSE m \in S : \A n \in S : n <= m

(***************************************************************************)
(* NEVRA_RE and parse_rpm_name.                                            *)
(***************************************************************************)
Digits == {"0", "1", "2", "3", "4", "5", "6", "7", "8", "9"}
Lower == {"a", "b", "c", "d", "e", "f", "g", "h", "i", "j", "k", "l", "m",
          "n", "o", "p", "q", "r", "s", "t", "u", "v", "w", "x", "y", "z"}
\* [a-z0-9_]
ArchChars == Lower \cup Digits \cup {"_"}

\* s[i..j], empty when j < i.
Slice(s, i, j) == IF j < i THEN <<>> ELSE SubSeq(s, i, j)

\* Length of the longest run of characters of class C starting at s[i].
RECURSIVE RunIn(_, _, _)
RunIn(s, i, C) ==
    IF i <= Len(s) /\ s[i] \in C THEN 1 + RunIn(s, i + 1, C) ELSE 0

\* Length of the longest run of characters outside X starting at s[i].
RECURSIVE RunNotIn(_, _, _)
RunNotIn(s, i, X) ==
    IF i <= Len(s) /\ s[i] \notin X THEN 1 + RunNotIn(s, i + 1, X) ELSE 0

At(s, i, c) == i <= Len(s) /\ s[i] = c

NoMatch == [ok |-> FALSE]

\* The first alternative the regex engine tries, else the second.
OrElse(first, second) == IF first.ok THEN first ELSE second

\* (?P<arch>[a-z0-9_]+) at a0: greedy, and nothing has to follow it (the
\* pattern is not anchored at the end of the text).
ArchFrom(s, a0) == Slice(s, a0, a0 + RunIn(s, a0, ArchChars) - 1)

\* The lengths k of (?P<rel>[^-:]+) at r0 after which '\.' and an arch
\* character follow.
RelEnds(s, r0) ==
    {k \in 1..RunNotIn(s, r0, {"-", ":"}) :
        /\ At(s, r0 + k, ".")
        /\ r0 + k + 1 <= Len(s)
        /\ s[r0 + k + 1] \in ArchChars}

\* RelArchOf with a lazy rel: the shortest k of K.
RelArchOfShortest(s, q, r0, K) ==
    IF K = {} THEN NoMatch
    ELSE LET k == CHOOSE m \in K : \A n \in K : m <= n
         IN  [ok |-> TRUE,
              ver |-> Slice(s, q, r0 - 2),
              rel |-> Slice(s, r0, r0 + k - 1),
              arch |-> ArchFrom(s, r0 + k + 1)]

\* rel is greedy: the longest k of K.
RelArchOf(s, q, r0, K) ==
    IF K = {} THEN NoMatch
    ELSE [ok |-> TRUE,
          ver |-> Slice(s, q, r0 - 2),
          rel |-> Slice(s, r0, r0 + Max(K) - 1),
          arch |-> ArchFrom(s, r0 + Max(K) + 1)]

\* (?P<ver>[^-:]+)- with ver from q to p - 1: ver can only be the whole run
\* of [^-:], a shorter one is not followed by '-'.
VerRelArchAt(s, q, p) ==
    IF p > q /\ At(s, p, "-")
    THEN RelArchOf(s, q, p + 1, RelEnds(s, p + 1))
    ELSE NoMatch

\* (?P<ver>[^-:]+)-(?P<rel>[^-:]+)\.(?P<arch>[a-z0-9_]+) tried at position q.
VerRelArch(s, q) == VerRelArchAt(s, q, q + RunNotIn(s, q, {"-", ":"}))

\* -((?P<e2>[0-9]+):) with d digits after the '-' at p, then ver-rel.arch.
WithE2(s, p, d) ==
    IF d >= 1 /\ At(s, p + 1 + d, ":")
    THEN VerRelArch(s, p + 2 + d) @@ [e2 |-> Slice(s, p + 1, p + d)]
    ELSE NoMatch

\* - with the '-' at p, then ver-rel.arch; e2 takes no part.
WithoutE2(s, p) == VerRelArch(s, p + 1) @@ [e2 |-> None]

\* (?(e1)-|-((?P<e2>[0-9]+):)?) followed by ver-rel.arch, with the '-' at p.
\* With e1 set only '-' is consumed; otherwise the optional e2 group is tried
\* first and given up when the rest does not match with it.
EpochTail(s, p, hasE1) ==
    IF ~At(s, p, "-") THEN NoMatch
    ELSE IF hasE1 THEN WithoutE2(s, p)
    ELSE OrElse(WithE2(s, p, RunIn(s, p + 1, Digits)), WithoutE2(s, p))

\* The lengths n of (?P<pn>[^:]+) at b after which the rest matches.
PnEnds(s, b, hasE1) ==
    {n \in 1..RunNotIn(s, b, {":"}) : EpochTail(s, b + n, hasE1).ok}

\* pn is greedy: the longest n of N.
FromPnOf(s, b, hasE1, N) ==
    IF N = {} THEN NoMatch
    ELSE EpochTail(s, b + Max(N), hasE1) @@ [pn |-> Slice(s, b, b + Max(N) - 1)]

\* (?P<pn>[^:]+) from position b and the rest of the pattern.
FromPn(s, b, hasE1) == FromPnOf(s, b, hasE1, PnEnds(s, b, hasE1))

\* ((?P<e1>[0-9]+):) with d leading digits, then the rest of the pattern.
WithE1(s, d) ==
    IF d >= 1 /\ At(s, d + 1, ":")
    THEN FromPn(s, d + 2, TRUE) @@ [e1 |-> Slice(s, 1, d)]
    ELSE NoMatch

\* NEVRA_RE.match(s): anchored at the start only. The optional leading
\* ((?P<e1>[0-9]+):)? is tried first and skipped when the rest fails with it.
NEVRA_RE_match(s) ==
    OrElse(WithE1(s, RunIn(s, 1, Digits)), FromPn(s, 1, FALSE) @@ [e1 |-> None])

DotRpm == <<".", "r", "p", "m">>

\* rpm_name[-4:] == '.rpm' -> rpm_name[:-4]
StripRpm(rpm_name) ==
    IF Len(rpm_name) >= 4 /\ Slice(rpm_name, Len(rpm_name) - 3, Len(rpm_name)) = DotRpm
    THEN Slice(rpm_name, 1, Len(rpm_name) - 4)
    ELSE rpm_name

\* Lines 36-50 of parse_rpm_name, given the match.
ParseResult(match, default_epoch, raise_exception) ==
    IF ~match.ok
    THEN IF raise_exception
         THEN [raised |-> TRUE, value |-> <<>>]
         ELSE [raised |-> FALSE,
               value |-> <<<<>>, default_epoch, <<>>, <<>>, <<>>>>]
    ELSE [raised |-> FALSE,
          value |-> <<match.pn,
                      IF Truthy(match.e1) THEN match.e1
                      ELSE IF Truthy(match.e2) THEN match.e2
                      ELSE default_epoch,
                      match.ver, match.rel, match.arch>>]

\* parse_rpm_name(rpm_name, default_epoch, raise_exception): the returned
\* 5-tuple, or the RPMParseException.
parse_rpm_name(rpm_name, default_epoch, raise_exception) ==
    ParseResult(NEVRA_RE_match(StripRpm(rpm_name)), default_epoch,
                raise_exception)

(***************************************************************************)
(* The snapshot store: table system(inventory_id, vmaas_json).             *)
(***************************************************************************)
PayloadEmpty == ""
PayloadValid == "{\"package_list\": [\"bash-5.1-9.el9.x86_64\"], \"repository_list\": [\"rhel-9\"]}"
PayloadGarbled == "{\"package_list\": "
Payloads == {PayloadEmpty, PayloadValid, PayloadGarbled}

\* The stores of at most MaxSystems rows; inventory_id is UNIQUE.
Stores ==
    UNION {[1..n -> Payloads] : n \in 0..MaxSystems}

Row(i, p) == [inventory_id |-> i, vmaas_json |-> p]

\* cur.fetchone() past the last row.
NoRow == Row(0, "")

\* ORDER by inventory_id: the rows of table t in ascending inventory_id.
OrderBy(t) == [i \in 1..Len(t) |-> Row(i, t[i])]

\* LIMIT n
Limit(s, n) == Slice(s, 1, IF n < Len(s) THEN n ELSE Len(s))

NonEmptyPayload(r) == r.vmaas_json # ""

\* SELECT inventory_id, vmaas_json FROM system WHERE vmaas_json != ''
\*   ORDER by inventory_id LIMIT {system_limit}
CompareQuery(t, n) == Limit(SelectSeq(OrderBy(t), NonEmptyPayload), n)

\* SELECT inventory_id, vmaas_json FROM system ORDER by inventory_id
\*   LIMIT {system_limit}
EvalQuery(t, n) == Limit(OrderBy(t), n)

\* json.loads(vmaas_json): the decoded request, or the JSONDecodeError.
json_loads(p) ==
    IF p = PayloadValid
    THEN [ok |-> TRUE,
          package_list |-> <<"bash-5.1-9.el9.x86_64">>,
          repository_list |-> <<"rhel-9">>]
    ELSE [ok |-> FALSE, package_list |-> <<>>, repository_list |-> <<>>]

(***************************************************************************)
(* The service's answers.                                                  *)
(***************************************************************************)
Cve(c) == [cve |-> c, affected_packages |-> <<>>]

Report(fixed, manual, unpatched) ==
    [cve_list |-> fixed, manually_fixable_cve_list |-> manual,
     unpatched_cve_list |-> unpatched]

EmptyReport == Report(<<>>, <<>>, <<>>)

Categories == {"cve_list", "manually_fixable_cve_list", "unpatched_cve_list"}

\* The non-empty CVE collections the comparator is run on: one CVE, two CVEs
\* in both orders, and one CVE listed twice.
CveLists == {<<Cve("CVE-1")>>,
             <<Cve("CVE-1"), Cve("CVE-2")>>,
             <<Cve("CVE-2"), Cve("CVE-1")>>,
             <<Cve("CVE-2"), Cve("CVE-2")>>}

\* The reports: all collections empty, one collection filled, or all three
\* filled alike.
CompareReports ==
    {EmptyReport}
    \cup {[EmptyReport EXCEPT ![c] = l] : c \in Categories, l \in CveLists}
    \cup {Report(l, l, l) : l \in CveLists}

\* A response: its status code and its body (decodable as JSON or not);
\* raised is requests.post() failing with a transport error.
Resp(status, decodable, v) ==
    [raised |-> FALSE, status_code |-> status, decodable |-> decodable,
     vulns |-> v]
TransportError ==
    [raised |-> TRUE, status_code |-> 0, decodable |-> FALSE,
     vulns |-> EmptyReport]
NoResp == Resp(0, FALSE, EmptyReport)

ErrorStatuses == {404, 500}

CompareOutcomes ==
    {Resp(200, TRUE, v) : v \in CompareReports}
    \cup {Resp(200, FALSE, EmptyReport)}
    \cup {Resp(s, FALSE, EmptyReport) : s \in ErrorStatuses}
    \cup {TransportError}

(***************************************************************************)
(* compare_python_go.py: the comparison of one pair of responses.          *)
(***************************************************************************)
\* One printed discrepancy. py and go are the two status codes of a status
\* mismatch and the two lengths of a count mismatch; cves is the one-sided
\* difference of a set mismatch.
Disc(id, category, kind, py, go, cves) ==
    [inventory_id |-> id, category |-> category, kind |-> kind,
     py |-> py, go |-> go, cves |-> cves]

\* {cve["cve"] for cve in l}
CveSet(l) == {l[i].cve : i \in 1..Len(l)}

\* CompareCategory comparing the two collections position by position.
CompareCategoryOrdered(id, category, l_py, l_go) ==
    LET differ == {i \in 1..Len(l_py) : i > Len(l_go) \/ l_py[i] # l_go[i]}
    IN  (IF Len(l_py) # Len(l_go)
         THEN <<Disc(id, category, "count_mismatch", Len(l_py), Len(l_go), {})>>
         ELSE <<>>)
        \o (IF differ # {}
            THEN <<Disc(id, category, "present_only_in_A", 0, 0,
                        {l_py[i].cve : i \in differ})>>
            ELSE <<>>)

\* The three checks of one category, in the order of the code.
CompareCategory(id, category, l_py, l_go) ==
    LET cves_py == CveSet(l_py)
        cves_go == CveSet(l_go)
        py_not_in_go == {c \in cves_py : c \notin cves_go}
        go_not_in_py == {c \in cves_go : c \notin cves_py}
    IN  (IF Len(l_py) # Len(l_go)
         THEN <<Disc(id, category, "count_mismatch", Len(l_py), Len(l_go), {})>>
         ELSE <<>>)
        \o (IF py_not_in_go # {}
            THEN <<Disc(id, category, "present_only_in_A", 0, 0, py_not_in_go)>>
            ELSE <<>>)
        \o (IF go_not_in_py # {}
            THEN <<Disc(id, category, "present_only_in_B", 0, 0, go_not_in_py)>>
            ELSE <<>>)

\* if resp_py.status_code != resp_go.status_code: ...
CompareStatus(id, r_py, r_go) ==
    IF r_py.status_code # r_go.status_code
    THEN <<Disc(id, "status", "status_mismatch", r_py.status_code,
                r_go.status_code, {})>>
    ELSE <<>>

BothOk(r_py, r_go) == r_py.status_code = 200 /\ r_go.status_code = 200

\* CompareContent guarded by the status of vmaas-py alone.
CompareContentPyOnly(id, r_py, r_go) ==
    IF r_py.status_code = 200
    THEN CompareCategory(id, "cve_list",
                         r_py.vulns.cve_list, r_go.vulns.cve_list)
         \o CompareCategory(id, "manually_fixable_cve_list",
                            r_py.vulns.manually_fixable_cve_list,
                            r_go.vulns.manually_fixable_cve_list)
         \o CompareCategory(id, "unpatched_cve_list",
                            r_py.vulns.unpatched_cve_list,
                            r_go.vulns.unpatched_cve_list)
    ELSE <<>>

\* CompareContent that stops at the first category that differs.
CompareContentFirstOnly(id, r_py, r_go) ==
    LET fixed == CompareCategory(id, "cve_list",
                                 r_py.vulns.cve_list, r_go.vulns.cve_list)
        manual == CompareCategory(id, "manually_fixable_cve_list",
                                  r_py.vulns.manually_fixable_cve_list,
                                  r_go.vulns.manually_fixable_cve_list)
        unpatched == CompareCategory(id, "unpatched_cve_list",
                                     r_py.vulns.unpatched_cve_list,
                                     r_go.vulns.unpatched_cve_list)
    IN  IF ~BothOk(r_py, r_go) THEN <<>>
        ELSE IF fixed # <<>> THEN fixed
        ELSE IF manual # <<>> THEN manual
        ELSE unpatched

\* if resp_py.status_code == 200 and resp_go.status_code == 200: ...
CompareContent(id, r_py, r_go) ==
    IF BothOk(r_py, r_go)
    THEN CompareCategory(id, "cve_list",
                         r_py.vulns.cve_list, r_go.vulns.cve_list)
         \o CompareCategory(id, "manually_fixable_cve_list",
                            r_py.vulns.manually_fixable_cve_list,
                            r_go.vulns.manually_fixable_cve_list)
         \o CompareCategory(id, "unpatched_cve_list",
                            r_py.vulns.unpatched_cve_list,
                            r_go.vulns.unpatched_cve_list)
    ELSE <<>>

\* Everything the loop body prints for one snapshot.
Compare(id, r_py, r_go) ==
    CompareStatus(id, r_py, r_go) \o CompareContent(id, r_py, r_go)

\* resp.json() raises on a body that is not JSON.
JsonRaises(r_py, r_go) == BothOk(r_py, r_go) /\ ~(r_py.decodable /\ r_go.decodable)


(***************************************************************************)
(* eval_systems.py: the figures of one system.                             *)
(***************************************************************************)
\* unfixed_breakdown is a dict: its items, as <<name, count>>, in insertion
\* order.
Keys(bd) == {bd[i][1] : i \in 1..Len(bd)}

\* Increment that drops the names of entries that did not parse.
IncrementSkipEmpty(bd, name) ==
    IF name = <<>> THEN bd
    ELSE IF name \in Keys(bd)
    THEN [i \in 1..Len(bd) |->
            IF bd[i][1] = name THEN <<name, bd[i][2] + 1>> ELSE bd[i]]
    ELSE Append(bd, <<name, 1>>)

\* if name not in unfixed_breakdown: unfixed_breakdown[name] = 0
\* unfixed_breakdown[name] += 1
Increment(bd, name) ==
    IF name \in Keys(bd)
    THEN [i \in 1..Len(bd) |->
            IF bd[i][1] = name THEN <<name, bd[i][2] + 1>> ELSE bd[i]]
    ELSE Append(bd, <<name, 1>>)

\* for affected_package in unfixed_cve['affected_packages']:
\*     nevra = parse_rpm_name(affected_package); name = nevra[0]; ...
RECURSIVE AttributePackages(_, _)
AttributePackages(bd, pkgs) ==
    IF pkgs = <<>> THEN bd
    ELSE AttributePackages(
             Increment(bd, parse_rpm_name(Head(pkgs), None, FALSE).value[1]),
             Tail(pkgs))

\* for unfixed_cve in vulns['unpatched_cve_list']: ...
RECURSIVE AttributeCves(_, _)
AttributeCves(bd, cves) ==
    IF cves = <<>> THEN bd
    ELSE AttributeCves(AttributePackages(bd, Head(cves).affected_packages),
                       Tail(cves))

\* Lines 116-124: the breakdown of one response.
Attribute(unpatched_cve_list) == AttributeCves(<<>>, unpatched_cve_list)

\* sorted(unfixed_breakdown, key=lambda x: x[1], reverse=True): stable, by
\* descending count.
RECURSIVE InsertByCount(_, _)
InsertByCount(sorted, item) ==
    IF sorted = <<>> THEN <<item>>
    ELSE IF Head(sorted)[2] >= item[2]
         THEN <<Head(sorted)>> \o InsertByCount(Tail(sorted), item)
         ELSE <<item>> \o sorted

RECURSIVE SortedByCount(_)
SortedByCount(bd) ==
    IF bd = <<>> THEN <<>>
    ELSE InsertByCount(SortedByCount(Slice(bd, 1, Len(bd) - 1)), bd[Len(bd)])

\* The line printed for one system, lines 113-134.
EvalLine(id, v, total_packages) ==
    LET unfixed_breakdown == Attribute(v.unpatched_cve_list)
    IN  [inventory_id |-> id,
         playbook_cves |-> Len(v.cve_list),
         manual_cves |-> Len(v.manually_fixable_cve_list),
         unfixed_cves |-> Len(v.unpatched_cve_list),
         unfixed_pkgs |-> Len(unfixed_breakdown),
         total_pkgs |-> total_packages,
         unfixed_pkgs_breakdown |-> SortedByCount(unfixed_breakdown)]

NoLine == EvalLine(0, EmptyReport, 0)

\* Package file names in the answers the evaluator is run on; the last one is
\* no NEVRA.
PkgBash == <<"b", "a", "s", "h", "-", "5", "-", "9", ".", "x">>
PkgGlibc == <<"g", "l", "i", "b", "c", "-", "2", "-", "1", ".", "x">>
PkgBad == <<"b", "a", "d">>
Packages == {PkgBash, PkgGlibc, PkgBad}

Unpatched(c, pkgs) == [cve |-> c, affected_packages |-> pkgs]

SeqsUpTo(S, n) == UNION {[1..k -> S] : k \in 0..n}

\* The unpatched collections the attribution is run on.
UnpatchedLists ==
    SeqsUpTo({Unpatched("CVE-3", pkgs) : pkgs \in SeqsUpTo(Packages, MaxAffected)},
             MaxUnpatched)

\* The reports the evaluator's loop is run on.
EvalReports ==
    {EmptyReport,
     Report(<<Cve("CVE-1")>>, <<>>, <<>>),
     Report(<<Cve("CVE-1"), Cve("CVE-2")>>, <<Cve("CVE-4")>>,
            <<Unpatched("CVE-3", <<PkgBash, PkgBad>>)>>),
     Report(<<>>, <<>>,
            <<Unpatched("CVE-3", <<PkgBash>>),
              Unpatched("CVE-5", <<PkgGlibc, PkgBash>>)>>)}

EvalOutcomes ==
    {Resp(200, TRUE, v) : v \in EvalReports}
    \cup {Resp(200, FALSE, EmptyReport)}
    \cup {Resp(s, FALSE, EmptyReport) : s \in ErrorStatuses}
    \cup {TransportError}

\* sum(stats)
RECURSIVE Sum(_)
Sum(s) == IF s = <<>> THEN 0 ELSE Head(s) + Sum(Tail(s))

(***************************************************************************)
(* main() of both tools: the cursor and the exits of the loop.             *)
(***************************************************************************)
\* cur.fetchone(): the next row of the result, NoRow past its end.
FetchOne(rs) == IF rs = <<>> THEN NoRow ELSE Head(rs)
Rest(rs) == IF rs = <<>> THEN <<>> ELSE Tail(rs)

\* while system: ... -- the loop is left when fetchone() returns no row.
AfterFetch(row) == IF row = NoRow THEN "stats" ELSE "loop"

\* system = cur.fetchone(), which may raise sqlite3.DatabaseError; the except
\* clause prints the error and main() goes on to the statistics.
Fetch ==
    \/ /\ system' = FetchOne(rows)
       /\ rows' = Rest(rows)
       /\ pc' = AfterFetch(system')
       /\ UNCHANGED db_error
    \/ /\ db_error' = TRUE
       /\ pc' = "stats"
       /\ UNCHANGED <<rows, system>>

\* An exception no except clause catches: main() ends with the traceback and
\* prints nothing more.
Crash(e) ==
    /\ pc' = "crashed"
    /\ exception' = e
    /\ UNCHANGED <<rows, system, db_error>>

Call(service, id) == [service |-> service, inventory_id |-> id]
Summary(label, num, den) == [label |-> label, num |-> num, den |-> den]

BatchInit(prog) ==
    /\ store \in Stores
    /\ system_limit \in 0..MaxSystems
    /\ pc = prog
    /\ rows = <<>>
    /\ system = NoRow
    /\ db_error = FALSE
    /\ exception = ""
    /\ calls = <<>>
    /\ summary = <<>>
    /\ durations_py = <<>>
    /\ durations_go = <<>>
    /\ resp_py = NoResp
    /\ resp_go = NoResp
    /\ out = <<>>
    /\ printed = 0
    /\ mismatched = FALSE
    /\ playbook_cves_stats = <<>>
    /\ manual_cves_stats = <<>>
    /\ unfixed_cves_stats = <<>>
    /\ unfixed_packages_stats = <<>>
    /\ total_packages_stats = <<>>
    /\ vulns = EmptyReport
    /\ line = NoLine
    /\ tries = 0
    /\ requests = 0
    /\ failures = <<>>
    /\ exit_code = 0
    /\ nevra = <<>>
    /\ form = ""
    /\ given_default = None
    /\ rendered = <<>>
    /\ parsed = <<>>

(***************************************************************************)
(* compare_python_go.py: main().                                           *)
(***************************************************************************)
\* The two collections hold the same CVE records, in any order.
IsPermutation(a, b) ==
    /\ Len(a) = Len(b)
    /\ \A x \in {a[i] : i \in 1..Len(a)} \cup {b[i] : i \in 1..Len(b)} :
          Cardinality({i \in 1..Len(a) : a[i] = x})
              = Cardinality({i \in 1..Len(b) : b[i] = x})

\* The two services answered alike.
Equivalent(r_py, r_go) ==
    /\ r_py.status_code = r_go.status_code
    /\ r_py.status_code = 200 =>
          \A c \in Categories : IsPermutation(r_py.vulns[c], r_go.vulns[c])

\* cur.execute(SELECT ... WHERE vmaas_json != '' ...); system = cur.fetchone()
CmpExecute ==
    /\ pc = "compare"
    /\ \/ /\ system' = FetchOne(CompareQuery(store, system_limit))
          /\ rows' = Rest(CompareQuery(store, system_limit))
          /\ pc' = AfterFetch(system')
          /\ UNCHANGED db_error
       \/ /\ db_error' = TRUE
          /\ pc' = "stats"
          /\ UNCHANGED <<rows, system>>
    /\ UNCHANGED <<store, system_limit, exception, calls, summary, compareVars,
                   evalVars, queryVars, parseVars>>

\* One pass of the loop body, lines 100-159.
CmpProcessSystem ==
    /\ pc = "loop"
    /\ system # NoRow
    /\ LET id == system.inventory_id
           request == json_loads(system.vmaas_json)
       IN  IF ~request.ok
           THEN /\ Crash("JSONDecodeError")
                /\ UNCHANGED <<calls, compareVars>>
           ELSE \E r_py \in CompareOutcomes :
                  IF r_py.raised
                  THEN /\ Crash("ConnectionError")
                       /\ calls' = Append(calls, Call("py", id))
                       /\ UNCHANGED compareVars
                  ELSE \E r_go \in CompareOutcomes :
                    /\ calls' = calls \o <<Call("py", id), Call("go", id)>>
                    /\ IF r_go.raised
                       THEN /\ Crash("ConnectionError")
                            /\ UNCHANGED compareVars
                       ELSE /\ durations_py' = Append(durations_py, id)
                            /\ durations_go' = Append(durations_go, id)
                            /\ resp_py' = r_py
                            /\ resp_go' = r_go
                            /\ IF JsonRaises(r_py, r_go)
                               THEN /\ out' = CompareStatus(id, r_py, r_go)
                                    /\ Crash("JSONDecodeError")
                               ELSE /\ out' = Compare(id, r_py, r_go)
                                    /\ UNCHANGED exception
                                    /\ Fetch
                            /\ printed' = printed + Len(out')
                            /\ mismatched' =
                                  (mismatched \/ ~Equivalent(r_py, r_go))
    /\ UNCHANGED <<store, system_limit, summary, evalVars, queryVars, parseVars>>

\* pd.Series(durations_py).describe(), pd.Series(durations_go).describe()
CmpDescribe ==
    /\ pc = "stats"
    /\ summary' = <<Summary("Python durations", Len(durations_py), 1),
                    Summary("Go durations", Len(durations_go), 1)>>
    /\ pc' = "done"
    /\ UNCHANGED <<store, system_limit, rows, system, db_error, exception,
                   calls, compareVars, evalVars, queryVars, parseVars>>

CmpNext == CmpExecute \/ CmpProcessSystem \/ CmpDescribe

SpecCompare == BatchInit("compare") /\ [][CmpNext]_vars


(***************************************************************************)
(* eval_systems.py: main().                                                *)
(***************************************************************************)
\* cur.execute(SELECT ... FROM system ORDER by ...); system = cur.fetchone()
EvExecute ==
    /\ pc = "eval"
    /\ \/ /\ system' = FetchOne(EvalQuery(store, system_limit))
          /\ rows' = Rest(EvalQuery(store, system_limit))
          /\ pc' = AfterFetch(system')
          /\ UNCHANGED db_error
       \/ /\ db_error' = TRUE
          /\ pc' = "stats"
          /\ UNCHANGED <<rows, system>>
    /\ UNCHANGED <<store, system_limit, exception, calls, summary, compareVars,
                   evalVars, queryVars, parseVars>>

\* One pass of the loop body, lines 100-140.
EvProcessSystem ==
    /\ pc = "loop"
    /\ system # NoRow
    /\ LET id == system.inventory_id
           request == json_loads(system.vmaas_json)
           total_packages == Len(request.package_list)
       IN  IF system.vmaas_json = ""
           THEN /\ Fetch
                /\ UNCHANGED <<exception, calls, evalVars>>
           ELSE IF ~request.ok
           THEN /\ Crash("JSONDecodeError")
                /\ UNCHANGED <<calls, evalVars>>
           ELSE \E resp \in EvalOutcomes :
                  /\ calls' = Append(calls, Call("py", id))
                  /\ IF resp.raised
                     THEN /\ Crash("ConnectionError")
                          /\ UNCHANGED evalVars
                     ELSE IF resp.status_code # 200
                     THEN /\ Fetch
                          /\ UNCHANGED <<exception, evalVars>>
                     ELSE IF ~resp.decodable
                     THEN /\ Crash("JSONDecodeError")
                          /\ UNCHANGED evalVars
                     ELSE /\ vulns' = resp.vulns
                          /\ line' = EvalLine(id, vulns', total_packages)
                          /\ playbook_cves_stats' =
                                Append(playbook_cves_stats, line'.playbook_cves)
                          /\ manual_cves_stats' =
                                Append(manual_cves_stats, line'.manual_cves)
                          /\ unfixed_cves_stats' =
                                Append(unfixed_cves_stats, line'.unfixed_cves)
                          /\ unfixed_packages_stats' =
                                Append(unfixed_packages_stats, line'.unfixed_pkgs)
                          /\ total_packages_stats' =
                                Append(total_packages_stats, total_packages)
                          /\ Fetch
                          /\ UNCHANGED exception
    /\ UNCHANGED <<store, system_limit, summary, compareVars, queryVars,
                   parseVars>>

\* The totals and averages of lines 146-156, in the order printed.
Totals ==
    <<Summary("total playbook cves", Sum(playbook_cves_stats), 1),
      Summary("average playbook cves per system", Sum(playbook_cves_stats),
              Len(playbook_cves_stats)),
      Summary("total manual cves", Sum(manual_cves_stats), 1),
      Summary("average manual cves per system", Sum(manual_cves_stats),
              Len(manual_cves_stats)),
      Summary("total unfixed cves", Sum(unfixed_cves_stats), 1),
      Summary("average unfixed cves per system", Sum(unfixed_cves_stats),
              Len(unfixed_cves_stats)),
      Summary("total unfixed packages", Sum(unfixed_packages_stats), 1),
      Summary("average unfixed packages per system",
              Sum(unfixed_packages_stats), Len(unfixed_packages_stats)),
      Summary("total packages", Sum(total_packages_stats), 1),
      Summary("average packages per system", Sum(total_packages_stats),
              Len(total_packages_stats))>>

\* The lines printed before the first division by zero (all, when there is
\* none): sum(x)/len(x) raises ZeroDivisionError on an empty list.
RECURSIVE PrintedBeforeZeroDivision(_)
PrintedBeforeZeroDivision(ls) ==
    IF ls = <<>> \/ Head(ls).den = 0 THEN <<>>
    ELSE <<Head(ls)>> \o PrintedBeforeZeroDivision(Tail(ls))

\* Lines 146-156.
EvAggregate ==
    /\ pc = "stats"
    /\ summary' = PrintedBeforeZeroDivision(Totals)
    /\ IF Len(summary') < Len(Totals)
       THEN /\ pc' = "crashed"
            /\ exception' = "ZeroDivisionError"
       ELSE /\ pc' = "done"
            /\ UNCHANGED exception
    /\ UNCHANGED <<store, system_limit, rows, system, db_error, calls,
                   compareVars, evalVars, queryVars, parseVars>>

EvNext == EvExecute \/ EvProcessSystem \/ EvAggregate

SpecEval == BatchInit("eval") /\ [][EvNext]_vars

(***************************************************************************)
(* eval_systems.py: the attribution of lines 113-134 on its own, run on    *)
(* every unpatched collection within the bounds.                           *)
(***************************************************************************)
AttrInit ==
    /\ BatchInit("attribute")
    /\ store = <<>>
    /\ system_limit = 0

AttrReceive ==
    /\ pc = "attribute"
    /\ \E u \in UnpatchedLists : vulns' = Report(<<>>, <<>>, u)
    /\ pc' = "received"
    /\ UNCHANGED <<store, system_limit, rows, system, db_error, exception,
                   calls, summary, compareVars, playbook_cves_stats,
                   manual_cves_stats, unfixed_cves_stats,
                   unfixed_packages_stats, total_packages_stats, line,
                   queryVars, parseVars>>

AttrPrint ==
    /\ pc = "received"
    /\ line' = EvalLine(1, vulns, 0)
    /\ pc' = "printed"
    /\ UNCHANGED <<store, system_limit, rows, system, db_error, exception,
                   calls, summary, compareVars, playbook_cves_stats,
                   manual_cves_stats, unfixed_cves_stats,
                   unfixed_packages_stats, total_packages_stats, vulns,
                   queryVars, parseVars>>

AttrNext == AttrReceive \/ AttrPrint

SpecAttribute == AttrInit /\ [][AttrNext]_vars


(***************************************************************************)
(* get_sys_profiles.py: query().                                           *)
(***************************************************************************)
\* while tries <= 5
MaxTries == 5

\* The statuses the gateway answers with when it does not answer 200.
GabiErrorStatuses == {401, 500, 503}

\* The loop guard off by one.
LoopGuardOffByOne == tries <= MaxTries + 1

\* while tries <= 5: the loop goes on.
LoopGuard == tries <= MaxTries

QueryInit == BatchInit("query") /\ store = <<>> /\ system_limit = 0

\* r = requests.post(GABI_URL, ...) and the if/else on r.status_code; a
\* transport error is caught nowhere.
QueryPost ==
    /\ pc = "query"
    /\ LoopGuard
    /\ requests' = requests + 1
    /\ \/ /\ pc' = "returned"
          /\ UNCHANGED <<tries, failures, exception>>
       \/ \E status \in GabiErrorStatuses :
            /\ failures' = Append(failures, status)
            /\ tries' = tries + 1
            /\ UNCHANGED <<pc, exception>>
       \/ /\ pc' = "crashed"
          /\ exception' = "ConnectionError"
          /\ UNCHANGED <<tries, failures>>
    /\ UNCHANGED <<store, system_limit, rows, system, db_error, calls, summary,
                   exit_code, compareVars, evalVars, parseVars>>

\* sys.exit(3) once the loop is left.
QueryExit ==
    /\ pc = "query"
    /\ ~LoopGuard
    /\ exit_code' = 3
    /\ pc' = "exited"
    /\ UNCHANGED <<store, system_limit, rows, system, db_error, exception,
                   calls, summary, tries, requests, failures, compareVars,
                   evalVars, parseVars>>

QueryNext == QueryPost \/ QueryExit

\* The process runs on until query() returns or the process ends.
SpecQuery == QueryInit /\ [][QueryNext]_vars /\ WF_vars(QueryNext)

(***************************************************************************)
(* parse_rpm_name applied to rendered tuples.                              *)
(***************************************************************************)
SeqsFrom1(S, n) == UNION {[1..k -> S] : k \in 1..n}

NameChars == {"a", "1", "-"}
VerChars == {"1", "."}
RelChars == {"1", "."}
Names == SeqsFrom1(NameChars, MaxNameLen)
Versions == SeqsFrom1(VerChars, MaxVerLen)
Releases == SeqsFrom1(RelChars, MaxRelLen)
Archs == {<<"x">>, <<"a", "_", "6">>, <<"r", "p", "m">>}
Epochs == {<<"0">>, <<"1", "2">>}
DefaultEpochs == {None, <<"7">>}

\* The three renderings of a tuple <<name, epoch, version, release, arch>>.
Render(t, f) ==
    LET vra == t[3] \o <<"-">> \o t[4] \o <<".">> \o t[5]
    IN  CASE f = "nvra" -> t[1] \o <<"-">> \o vra
          [] f = "nevra" -> t[1] \o <<"-">> \o t[2] \o <<":">> \o vra
          [] f = "envra" -> t[2] \o <<":">> \o t[1] \o <<"-">> \o vra

ParseInit ==
    /\ BatchInit("render")
    /\ store = <<>>
    /\ system_limit = 0

\* A tuple without an epoch is rendered name-version-release.arch, one with
\* an epoch in either of the two forms that carry it.
ChooseTuple ==
    /\ pc = "render"
    /\ \E n \in Names, v \in Versions, r \in Releases, a \in Archs,
          e \in Epochs \cup {None}, d \in DefaultEpochs :
          /\ nevra' = <<n, e, v, r, a>>
          /\ given_default' = d
          /\ \E f \in IF e = None THEN {"nvra"} ELSE {"nevra", "envra"} :
                /\ form' = f
                /\ rendered' = Render(nevra', f)
    /\ pc' = "parse"
    /\ UNCHANGED <<store, system_limit, rows, system, db_error, exception,
                   calls, summary, compareVars, evalVars, queryVars, parsed>>

ParseRendered ==
    /\ pc = "parse"
    /\ parsed' = parse_rpm_name(rendered, given_default, FALSE).value
    /\ pc' = "parsed"
    /\ UNCHANGED <<store, system_limit, rows, system, db_error, exception,
                   calls, summary, compareVars, evalVars, queryVars, nevra,
                   form, given_default, rendered>>

ParseNext == ChooseTuple \/ ParseRendered

SpecParse == ParseInit /\ [][ParseNext]_vars


(***************************************************************************)
(* Properties of compare_python_go.py, under SpecCompare.                  *)
(***************************************************************************)
\* Some snapshot went through the loop body up to the comparison.
Compared == durations_py # <<>>
LastId == durations_py[Len(durations_py)]
InventoryIds(rs) == [i \in 1..Len(rs) |-> rs[i].inventory_id]
OfCategory(c) == {i \in 1..Len(out) : out[i].category = c}
OfKind(c, k) == {i \in OfCategory(c) : out[i].kind = k}

\* C1: no failure on one snapshot aborts the batch: main() never ends on an
\* uncaught exception, and unless the store fails every snapshot the query
\* selects is processed before the statistics are printed.
C1_NeverAborts ==
    /\ pc # "crashed"
    /\ (pc = "done" /\ ~db_error) =>
          /\ durations_py = InventoryIds(CompareQuery(store, system_limit))
          /\ Len(summary) = 2

\* C2: when the two status codes differ, the snapshot gets exactly one
\* status-mismatch discrepancy carrying both codes and no discrepancy of any
\* of the three categories.
C2_StatusMismatchOnly ==
    (Compared /\ resp_py.status_code # resp_go.status_code) =>
        /\ Len(out) = 1
        /\ out[1].kind = "status_mismatch"
        /\ out[1].inventory_id = LastId
        /\ out[1].py = resp_py.status_code
        /\ out[1].go = resp_go.status_code
        /\ \A c \in Categories : OfCategory(c) = {}

\* C2's case: exactly one of the two services answers with a non-200 status.
C2_Witness ==
    /\ Compared
    /\ resp_py.status_code = 200
    /\ resp_py.vulns.cve_list # <<>>
    /\ resp_go.status_code = 500
    /\ Len(out) = 1

\* C3: when the two services answer with the same status and, for status
\* 200, with collections that are permutations of each other, the snapshot
\* gets no discrepancy; a batch of such answers prints none at all.
C3_EquivalentNoDiscrepancy ==
    /\ (Compared /\ Equivalent(resp_py, resp_go)) => out = <<>>
    /\ ~mismatched => printed = 0

\* C3's case: the same two CVEs in a different order, on a later snapshot of
\* a batch that has printed nothing.
C3_Witness ==
    /\ Len(durations_py) = 2
    /\ ~mismatched
    /\ BothOk(resp_py, resp_go)
    /\ resp_py.vulns.cve_list = <<Cve("CVE-1"), Cve("CVE-2")>>
    /\ resp_go.vulns.cve_list = <<Cve("CVE-2"), Cve("CVE-1")>>
    /\ out = <<>>

\* The comparison of the bodies took place: both answered 200 with JSON.
ContentCompared ==
    /\ Compared
    /\ BothOk(resp_py, resp_go)
    /\ resp_py.decodable /\ resp_go.decodable

\* C4 as stated: at most two discrepancies per category and six per
\* snapshot.
C4_AtMostTwoPerCategory ==
    ContentCompared =>
        /\ Len(out) <= 6
        /\ \A c \in Categories : Cardinality(OfCategory(c)) <= 2

\* C4 as amended: each category is checked on its own two collections,
\* whatever the other categories gave: a count mismatch is reported exactly
\* when the lengths differ and each one-sided difference exactly when it is
\* not empty, once each; hence at most three discrepancies per category and
\* nine per snapshot.
C4_IndependentAtMostThree ==
    ContentCompared =>
        /\ Len(out) <= 9
        /\ \A c \in Categories :
             LET a == resp_py.vulns[c]
                 b == resp_go.vulns[c]
             IN  /\ Cardinality(OfCategory(c)) <= 3
                 /\ Cardinality(OfKind(c, "count_mismatch"))
                      = (IF Len(a) # Len(b) THEN 1 ELSE 0)
                 /\ Cardinality(OfKind(c, "present_only_in_A"))
                      = (IF CveSet(a) \ CveSet(b) # {} THEN 1 ELSE 0)
                 /\ Cardinality(OfKind(c, "present_only_in_B"))
                      = (IF CveSet(b) \ CveSet(a) # {} THEN 1 ELSE 0)
                 /\ \A i \in OfCategory(c) : out[i].inventory_id = LastId

\* C4's case: every category differs in length and in both directions.
C4_Witness ==
    /\ ContentCompared
    /\ Len(out) = 9
    /\ \A c \in Categories : Cardinality(OfCategory(c)) = 3

(***************************************************************************)
(* Properties of eval_systems.py, under SpecEval.                          *)
(***************************************************************************)
Ended == pc \in {"done", "crashed"}

\* C5: a snapshot with an empty payload is never sent to the service, and the
\* systems evaluated are those that would be with the empty snapshots absent
\* from the store (the rows the comparator's query, which filters them out
\* before the limit, selects).
C5_EmptySkippedAsIfAbsent ==
    /\ \A i \in 1..Len(calls) : store[calls[i].inventory_id] # ""
    /\ (pc = "stats" /\ ~db_error) =>
          [i \in 1..Len(calls) |-> calls[i].inventory_id]
              = InventoryIds(CompareQuery(store, system_limit))

\* C7: with no eligible system the aggregation still ends normally, all its
\* lines printed.
C7_ZeroEligibleNoCrash ==
    (Ended /\ playbook_cves_stats = <<>>
        /\ exception \notin {"ConnectionError", "JSONDecodeError"}) =>
        /\ pc = "done"
        /\ Len(summary) = Len(Totals)

\* C8: after a store error the run goes on to print the statistics of the
\* samples it holds, and ends normally.
C8_StoreErrorKeepsStatistics ==
    (db_error /\ Ended) =>
        /\ pc = "done"
        /\ summary = Totals

(***************************************************************************)
(* Properties of query(), under SpecQuery.                                 *)
(***************************************************************************)
QueryEnded == pc \in {"returned", "exited", "crashed"}

QuerySafe ==
    \* never more than the first request and five retries
    /\ requests <= 6
    /\ Len(failures) <= 6
    \* every request but a last successful or failed one was answered non-200
    /\ pc = "query" => requests = Len(failures)
    \* the first 200 ends query(): nothing was requested after it
    /\ pc = "returned" => requests = Len(failures) + 1 /\ exit_code = 0
    \* exit code 3, and only once five retries have failed
    /\ pc = "exited" => exit_code = 3 /\ requests = 6 /\ Len(failures) = 6
    /\ exit_code # 0 => pc = "exited"
    \* exhausted retries leave nothing but the exit
    /\ (pc = "query" /\ Len(failures) = 6) => ~ENABLED QueryPost

\* C6: query() returns at the first 200, retries a non-200 at most five
\* times, exits with code 3 once the retries are used up, and always ends.
C6_QueryBoundedRetries == []QuerySafe /\ <>QueryEnded

\* C6's case: six answers, none 200, and the exit with code 3.
C6_Witness ==
    /\ pc = "exited"
    /\ exit_code = 3
    /\ failures = <<500, 503, 500, 401, 500, 503>>

(***************************************************************************)
(* Properties of parse_rpm_name, under SpecParse and SpecAttribute.        *)
(***************************************************************************)
\* The tuple a round trip has to give back: the epoch of the tuple, the
\* caller's default when it has none.
Expected(t, d) == <<t[1], IF t[2] = None THEN d ELSE t[2], t[3], t[4], t[5]>>

Contains(s, c) == \E i \in 1..Len(s) : s[i] = c

\* C9 as stated: parsing a rendered tuple gives the tuple back.
C9_RoundTrip ==
    pc = "parsed" => parsed = Expected(nevra, given_default)

\* C9 as amended: parsing a rendered tuple gives the tuple back unless its
\* architecture is 'rpm' (the rendering then ends in '.rpm', which is
\* stripped before the match).
C9_RoundTripUnlessRpm ==
    (pc = "parsed" /\ nevra[5] # <<"r", "p", "m">>) =>
        parsed = Expected(nevra, given_default)

\* C9's case: a name with '-', a release with '.' followed by more of the
\* release, an epoch after the name.
C9_Witness ==
    /\ pc = "parsed"
    /\ form = "nevra"
    /\ Contains(nevra[1], "-")
    /\ nevra[4] = <<"1", ".", "1">>
    /\ nevra[5] = <<"a", "_", "6">>
    /\ parsed = nevra

\* The package name of each file name the attribution is run on; '' for the
\* one that is no NEVRA.
NameOf(pkg) ==
    CASE pkg = PkgBash -> <<"b", "a", "s", "h">>
      [] pkg = PkgGlibc -> <<"g", "l", "i", "b", "c">>
      [] pkg = PkgBad -> <<>>

\* The affected_packages entries of the answer: <<CVE index, entry index>>.
Entries ==
    LET u == vulns.unpatched_cve_list
    IN  UNION {{<<i, j>> : j \in 1..Len(u[i].affected_packages)} :
                  i \in 1..Len(u)}

EntriesNamed(n) ==
    {e \in Entries :
        NameOf(vulns.unpatched_cve_list[e[1]].affected_packages[e[2]]) = n}

\* C10: every affected_packages entry is counted once, under its package
\* name, '' for an entry that does not parse; the counts add up to the number
\* of entries and unfixed_pkgs is the number of distinct names.
C10_AttributionLosesNothing ==
    pc = "printed" =>
        LET bd == line.unfixed_pkgs_breakdown
        IN  /\ \A i, j \in 1..Len(bd) : bd[i][1] = bd[j][1] => i = j
            /\ \A i \in 1..Len(bd) :
                  bd[i][2] = Cardinality(EntriesNamed(bd[i][1]))
            /\ \A e \in Entries :
                  NameOf(vulns.unpatched_cve_list[e[1]].affected_packages[e[2]])
                      \in Keys(bd)
            /\ Sum([i \in 1..Len(bd) |-> bd[i][2]]) = Cardinality(Entries)
            /\ line.unfixed_pkgs = Cardinality(Keys(bd))
            /\ line.unfixed_cves = Len(vulns.unpatched_cve_list)

\* C10's case: two CVEs, the entry that does not parse under both, counted
\* twice under ''.
C10_Witness ==
    /\ pc = "printed"
    /\ Len(vulns.unpatched_cve_list) = 2
    /\ line.unfixed_pkgs = 2
    /\ line.unfixed_pkgs_breakdown = <<<< <<>>, 2>>, << <<"b", "a", "s", "h">>, 1>>>>

=============================================================================
